---- MODULE Spec2Model ----
(***************************************************************************)
(* Wallet-system: transfer intake (WalletService.submitTransfer), the      *)
(* transaction processor (TransactionProcessorService) and the block       *)
(* builder (BlockService), over a relational store read at READ COMMITTED  *)
(* and a Redis list/key space.                                             *)
(*                                                                         *)
(* Amounts are integers (minor units).  A store transaction's writes       *)
(* become visible at its commit; a row read without a lock is a snapshot   *)
(* that later writes of the whole entity (EntityManager.save) write back.  *)
(***************************************************************************)
EXTENDS Integers, Sequences, FiniteSets, TLC

\* ------------------------------------------------------------------ bounds
MaxTx == 2          \* transactions ever submitted
MaxAmount == 2      \* largest transfer amount
InitBalance == 3    \* balance the funded accounts start with
MaxTicks == 1       \* times the clock advances by one block time
MaxFaults == 1      \* injected store failures (executor exception, seal failure)
MaxSealTx == 3      \* transactions ever submitted under SpecSeal
MaxReplays == 1     \* ids pushed onto the mempool a second time
MaxBatch == 3       \* longest list handed to createBlockWithTypeORM on its own
MaxHash == 4        \* system hashes such a list is drawn from
MaxBlocks == 2      \* blocks created by createBlockWithTypeORM on its own
MaxCount == 2       \* largest TX_PROCESSOR_BATCH_SIZE under SpecDrain

\* ------------------------------------------------------ program constants
batchSize == 10
blockTimeMs == 15000
minTxsPerBlock == 3

None == "none"

\* a nullable column or reference that holds a number or a hash: null, or the value
Null == <<>>
Some(v) == <<v>>

\* ------------------------------------------------------------ static data
Accounts == {"A", "B", "C", "D"}
Users == {"u1", "u2", "u3"}
Clients == {"c1", "c2"}
Procs == {"p1", "p2"}
Currencies == {"NGN", "USD"}

\* wallet.userId of the wallet that owns the account
WalletUser(a) == CASE a = "A" -> "u1" [] a = "B" -> "u2" [] a = "C" -> "u3" [] OTHER -> "u2"

\* Account.currency (set at creation, never written by the pipeline)
AccountCurrency(a) == IF a = "D" THEN "USD" ELSE "NGN"

VARIABLES
  accounts,      \* accounts table: [Accounts -> [balance, locked, nonce]]
  transactions,  \* transactions table: sequence of rows, id = index (createdAt order)
  blocks,        \* blocks table: sequence of rows, id = index
  rowLock,       \* pessimistic_write row locks on accounts: holder client or None
  clientPc, clientReq, clientSender, clientResult,   \* submitTransfer calls in flight
  createdTransaction,   \* submitTransfer's createdTransaction.id (0: none)
  mempool,       \* Redis list tx:mempool, head (LPUSH side) first
  dlq,           \* Redis list tx:dead_letter, head first
  lease,         \* Redis keys tx:processing_lock:{id}: holder or None
  pc,            \* position of each processor instance in its cycle
  txIdsFromMempool,             \* the cycle's popped ids still to handle
  successfullyExecutedTxData,   \* the cycle's collected ids
  transaction,   \* executeSingleTransaction's loaded row with its relations
  revertRead,    \* revertLockOnAccount's currentAccountState.locked
  latestBlock,   \* createBlockWithTypeORM's latestBlock
  lastBlockCreatedAt,   \* this.lastBlockCreatedAt of each instance
  now,           \* Date.now()
  faults,        \* store failures injected so far
  instanceOf,    \* the processor instance each cycle runner belongs to
  processingInterval,   \* whether this.processingInterval is set
  isProcessing,  \* this.isProcessing
  cache,         \* Redis keys balance:{systemAddress}: null, or the cached account state
  replays,       \* ids pushed onto the mempool a second time so far
  processedTransactions,   \* createBlockWithTypeORM's argument: the system hashes
  createResult,  \* what a createBlockWithTypeORM call made on its own returned
  loadedAccount  \* getAccountBalance's account: the row a call in flight loaded, or null

vars == <<accounts, transactions, blocks, rowLock, clientPc, clientReq, clientSender,
          clientResult, mempool, dlq, lease, pc, txIdsFromMempool,
          successfullyExecutedTxData, transaction, revertRead, latestBlock,
          lastBlockCreatedAt, now, faults, createdTransaction, instanceOf,
          processingInterval, isProcessing, cache, replays, processedTransactions,
          createResult, loadedAccount>>

storeVars == <<accounts, transactions, blocks>>
clientVars == <<rowLock, clientPc, clientReq, clientSender, clientResult, createdTransaction>>
loopVars == <<instanceOf, processingInterval, isProcessing>>
builderVars == <<processedTransactions, createResult>>
readerVars == <<loadedAccount>>
envVars == <<cache, replays, builderVars, readerVars>>
procVars == <<pc, txIdsFromMempool, successfullyExecutedTxData, transaction, revertRead,
              latestBlock, lastBlockCreatedAt>>

\* ------------------------------------------------------------- the store

\* mutant: the check "balance" >= "locked" is missing from the table
CheckConstraintsNoOrder(row) == row.balance >= 0 /\ row.locked >= 0

\* @Check("balance" >= 0), @Check("locked" >= 0), @Check("balance" >= "locked")
CheckConstraints(row) == row.balance >= 0 /\ row.locked >= 0 /\ row.balance >= row.locked

NoReq == [userId |-> None, from |-> None, to |-> None, amount |-> 0, currency |-> None]
NoRow == [balance |-> 0, locked |-> 0, nonce |-> 0]

\* String.prototype.toUpperCase on the currency codes the requests use
ToUpperCase(c) == CASE c = "ngn" -> "NGN" [] c = "usd" -> "USD" [] OTHER -> c

\* Redis LPUSH: the value becomes the head of the list
LPush(list, v) == <<v>> \o list

\* ----------------------------------------------------------- submitTransfer

\* mutant: the sender row is found by its address alone
SenderFoundAnyUser(userId, from) == from \in Accounts

\* finding the sender row: where systemAddress = from and wallet.userId = userId
SenderFound(userId, from) == from \in Accounts /\ WalletUser(from) = userId

\* mutant: the sender row is read without the pessimistic write lock
SenderRowFreeNoLock(c, from) == TRUE

\* lock: pessimistic_write -- SELECT ... FOR UPDATE waits while another holds the row
SenderRowFree(c, from) == rowLock[from] = None

\* the call returns or throws `kind`; clientReq keeps the arguments of the call
Return(c, kind) ==
  /\ clientResult' = [clientResult EXCEPT ![c] = kind]
  /\ clientPc' = [clientPc EXCEPT ![c] = "idle"]
  /\ clientSender' = [clientSender EXCEPT ![c] = NoRow]

\* submitTransfer up to the locked read of the sender row
SubmitBegin(c, userId, from, to, amount, currency) ==
  /\ clientPc[c] = "idle"
  /\ clientReq' = [clientReq EXCEPT ![c] =
         [userId |-> userId, from |-> from, to |-> to, amount |-> amount,
          currency |-> ToUpperCase(currency)]]
  /\ IF amount <= 0
       THEN Return(c, "BadRequest:amount") /\ UNCHANGED rowLock
     ELSE IF from = to
       THEN Return(c, "BadRequest:same") /\ UNCHANGED rowLock
     ELSE IF ~SenderFound(userId, from)
       THEN Return(c, "Forbidden") /\ UNCHANGED rowLock
     ELSE /\ SenderRowFree(c, from)
          /\ rowLock' = [rowLock EXCEPT ![from] = c]
          /\ clientPc' = [clientPc EXCEPT ![c] = "locked"]
          /\ clientSender' = [clientSender EXCEPT ![c] = accounts[from]]
          /\ clientResult' = [clientResult EXCEPT ![c] = None]
  /\ UNCHANGED <<envVars, loopVars, storeVars, mempool, dlq, lease, procVars, now, faults, createdTransaction>>

\* the sender row as saved by submitTransfer
LockedSender(sender, amount) ==
  [sender EXCEPT !.locked = sender.locked + amount, !.nonce = sender.nonce + 1]

\* mutant: after a store error the sender's save is committed instead of rolled back
RollbackKeepsSave(c, kind) ==
  /\ Return(c, kind)
  /\ rowLock' = [rowLock EXCEPT ![clientReq[c].from] = IF @ = c THEN None ELSE @]
  /\ accounts' = IF kind = "InternalServerError"
                   THEN [accounts EXCEPT ![clientReq[c].from] =
                           LockedSender(clientSender[c], clientReq[c].amount)]
                   ELSE accounts
  /\ UNCHANGED <<transactions, blocks, mempool, clientReq, createdTransaction>>

\* mutant: addToMempool is called inside the store transaction, before the failure
RollbackAfterPush(c, kind) ==
  /\ Return(c, kind)
  /\ rowLock' = [rowLock EXCEPT ![clientReq[c].from] = IF @ = c THEN None ELSE @]
  /\ mempool' = LPush(mempool, Len(transactions) + 1)
  /\ UNCHANGED <<storeVars, clientReq, createdTransaction>>

\* rollbackTransaction and the rethrown error: the row lock is released
Rollback(c, kind) ==
  /\ Return(c, kind)
  /\ rowLock' = [rowLock EXCEPT ![clientReq[c].from] = IF @ = c THEN None ELSE @]
  /\ UNCHANGED <<storeVars, mempool, clientReq, createdTransaction>>

\* the Transaction row submitTransfer creates
NewTransaction(req, sender) ==
  [fromAccountId |-> req.from, toAccountId |-> req.to, amount |-> req.amount,
   status |-> "PENDING", accountNonce |-> sender.nonce,
   systemHash |-> Len(transactions) + 1,
   blockId |-> Null, blockHeight |-> Null]

\* mutant: the recipient is loaded and checked before the available funds
RejectionRecipientFirst(req, sender) ==
  IF AccountCurrency(req.from) # req.currency THEN "BadRequest:senderCurrency"
  ELSE IF req.to \notin Accounts THEN "NotFound"
  ELSE IF AccountCurrency(req.to) # req.currency THEN "BadRequest:recipientCurrency"
  ELSE IF sender.balance - sender.locked < req.amount THEN "BadRequest:insufficient"
  ELSE IF ~CheckConstraints(LockedSender(sender, req.amount)) THEN "InternalServerError"
  ELSE None

\* the exception submitTransfer throws inside its store transaction, in the order of
\* its checks (None: it goes on to the commit); the last is the store refusing the save
Rejection(req, sender) ==
  IF AccountCurrency(req.from) # req.currency THEN "BadRequest:senderCurrency"
  ELSE IF sender.balance - sender.locked < req.amount THEN "BadRequest:insufficient"
  ELSE IF req.to \notin Accounts THEN "NotFound"
  ELSE IF AccountCurrency(req.to) # req.currency THEN "BadRequest:recipientCurrency"
  ELSE IF ~CheckConstraints(LockedSender(sender, req.amount)) THEN "InternalServerError"
  ELSE None

\* submitTransfer from the currency check to the commit of its store transaction;
\* `cap` bounds the transactions ever created
SubmitCommitUpTo(c, cap) ==
  /\ clientPc[c] = "locked"
  /\ LET req == clientReq[c]
         sender == clientSender[c]
     IN IF Rejection(req, sender) # None
          THEN Rollback(c, Rejection(req, sender))
        ELSE /\ Len(transactions) < cap
             /\ accounts' = [accounts EXCEPT ![req.from] = LockedSender(sender, req.amount)]
             /\ transactions' = Append(transactions, NewTransaction(req, sender))
             /\ UNCHANGED blocks
             /\ rowLock' = [rowLock EXCEPT ![req.from] = IF @ = c THEN None ELSE @]
             /\ createdTransaction' = [createdTransaction EXCEPT ![c] = Len(transactions) + 1]
             /\ clientPc' = [clientPc EXCEPT ![c] = "committed"]
             /\ clientSender' = [clientSender EXCEPT ![c] = NoRow]
             /\ UNCHANGED <<clientReq, clientResult, mempool>>
  /\ UNCHANGED <<envVars, loopVars, dlq, lease, procVars, now, faults>>

SubmitCommit(c) == SubmitCommitUpTo(c, MaxTx)

\* a store call of submitTransfer's transaction throws: rollback, InternalServerError
SubmitThrow(c) ==
  /\ clientPc[c] = "locked"
  /\ faults < MaxFaults
  /\ Rollback(c, "InternalServerError")
  /\ faults' = faults + 1
  /\ UNCHANGED <<envVars, loopVars, dlq, lease, procVars, now>>

\* submitTransfer after the commit: addToMempool, the cache key deleted, the return
SubmitEnqueue(c) ==
  /\ clientPc[c] = "committed"
  /\ mempool' = LPush(mempool, createdTransaction[c])
  /\ createdTransaction' = [createdTransaction EXCEPT ![c] = 0]
  /\ cache' = [cache EXCEPT ![clientReq[c].from] = Null]
  /\ Return(c, "PENDING")
  /\ UNCHANGED <<replays, builderVars, readerVars, loopVars, storeVars, rowLock, clientReq, dlq, lease, procVars, now, faults>>

\* submitTransfer after the commit: addToMempool's lpush fails and its Error goes
\* to the caller; the row stays committed and the id is in no list
EnqueueThrow(c) ==
  /\ clientPc[c] = "committed"
  /\ faults < MaxFaults
  /\ faults' = faults + 1
  /\ createdTransaction' = [createdTransaction EXCEPT ![c] = 0]
  /\ Return(c, "Error:queue")
  /\ UNCHANGED <<envVars, loopVars, storeVars, rowLock, clientReq, mempool, dlq, lease, procVars, now>>

\* the balance view getAccountBalance computes from the account row
BalanceView(a, account) ==
  [available |-> account.balance - account.locked, locked |-> account.locked,
   total |-> account.balance, currency |-> AccountCurrency(a), nonce |-> account.nonce]

\* getAccountBalance(userId, systemAddress) by the owner of the account: a cache hit
\* returns the cached view and changes nothing, a miss stores the view of the row
getAccountBalance(a) ==
  /\ cache[a] = Null
  /\ cache' = [cache EXCEPT ![a] = Some(BalanceView(a, accounts[a]))]
  /\ UNCHANGED <<replays, builderVars, readerVars, loopVars, storeVars, clientVars, mempool, dlq, lease, procVars, now, faults>>

\* ------------------------------------------------------------ BlockService

\* createHash('sha256').update(data).digest('hex'): an injective tag of its input
Sha256(data) == <<"sha256", data>>

\* mutant: the system hashes are hashed in the order they were handed in
SortHashesNone(hashes) == hashes

\* Array.prototype.sort on the system hashes
SortHashes(hashes) == SortSeq(hashes, LAMBDA x, y : x < y)

GenesisPrevHash == "GENESIS_BLOCK_PREV_HASH_0000000000000"

calculateBlockHash(height, timestamp, previousBlockHash, transactionSystemHashes) ==
  Sha256(<<height, timestamp,
           IF previousBlockHash = Null THEN GenesisPrevHash ELSE previousBlockHash[1],
           SortHashes(transactionSystemHashes)>>)

\* one level of the Merkle tree: pairs hashed together, a last odd node with itself
RECURSIVE MerkleLevel(_)
MerkleLevel(level) ==
  IF Len(level) = 0 THEN <<>>
  ELSE IF Len(level) = 1 THEN <<Sha256(<<level[1], level[1]>>)>>
  ELSE <<Sha256(<<level[1], level[2]>>)>> \o MerkleLevel(SubSeq(level, 3, Len(level)))

RECURSIVE MerkleReduce(_)
MerkleReduce(level) == IF Len(level) <= 1 THEN level[1] ELSE MerkleReduce(MerkleLevel(level))

calculateMerkleRoot(transactionSystemHashes) ==
  IF Len(transactionSystemHashes) = 0 THEN Sha256(<<>>)
  ELSE IF Len(transactionSystemHashes) = 1 THEN Sha256(transactionSystemHashes[1])
  ELSE MerkleReduce(SortHashes(transactionSystemHashes))

\* getLatestBlock: the committed block of greatest height, or null
getLatestBlock ==
  IF blocks = <<>> THEN Null
  ELSE Some(CHOOSE b \in 1..Len(blocks) : \A o \in 1..Len(blocks) : blocks[o].height <= blocks[b].height)

\* mutant: the link to the latest block is dropped
PreviousBlockHashNull(latest) == Null

\* previousBlockHash of the block built on `latest`
PreviousBlockHash(latest) == IF latest = Null THEN Null ELSE Some(blocks[latest[1]].blockHash)

\* height of the block built on `latest`
NewHeight(latest) == IF latest = Null THEN 0 ELSE blocks[latest[1]].height + 1

\* the Block row createBlockWithTypeORM builds on `latest`
NewBlock(latest, timestamp, hashes) ==
  [height |-> NewHeight(latest),
   blockHash |-> calculateBlockHash(NewHeight(latest), timestamp, PreviousBlockHash(latest), hashes),
   previousBlockHash |-> PreviousBlockHash(latest),
   timestamp |-> timestamp,
   merkleRoot |-> calculateMerkleRoot(hashes)]

\* mutant: an empty list is not rejected
EmptyListAccepted(list) == FALSE

\* processedTransactions.length === 0
EmptyList(list) == Len(list) = 0

\* createBlockWithTypeORM(processedTransactions, manager) called on its own, as the
\* unit tests call it: an empty list throws, else the block built on the latest
\* block is saved
createBlockWithTypeORM ==
  /\ createResult # "InternalServerError"
  /\ Len(blocks) < MaxBlocks
  /\ IF EmptyList(processedTransactions)
       THEN /\ createResult' = "InternalServerError"
            /\ UNCHANGED blocks
       ELSE /\ blocks' = Append(blocks, NewBlock(getLatestBlock, now, processedTransactions))
            /\ createResult' = "saved"
  /\ UNCHANGED <<cache, replays, readerVars, processedTransactions, loopVars, accounts, transactions,
                 clientVars, mempool, dlq, lease, procVars, now, faults>>

\* mutant: blocks.height carries no unique index
HeightTakenNoIndex(height) == FALSE

\* the unique index on blocks.height
HeightTaken(height) == \E b \in 1..Len(blocks) : blocks[b].height = height

\* -------------------------------------------- TransactionProcessorService

NoTxRow == [fromAccountId |-> None, toAccountId |-> None, amount |-> 0, status |-> None,
            accountNonce |-> 0, systemHash |-> 0, blockId |-> Null, blockHeight |-> Null]
NoTransaction == [id |-> 0, row |-> NoTxRow, sender |-> NoRow, recipient |-> NoRow]
NoLatest == [latest |-> Null, timestamp |-> 0]

\* mutant: the ids are popped from the side they were pushed on (LPOP)
PoppedIdsNewestFirst(count) ==
  [i \in 1..(IF Len(mempool) < count THEN Len(mempool) ELSE count) |-> mempool[i]]

\* getFromMempool(count): RPOP until `count` ids or the list is empty
PoppedIds(count) ==
  [i \in 1..(IF Len(mempool) < count THEN Len(mempool) ELSE count) |-> mempool[Len(mempool) + 1 - i]]

\* the ids of a batch pushed back one by one with LPUSH
RECURSIVE PushBack(_, _)
PushBack(list, ids) == IF ids = <<>> THEN list ELSE PushBack(LPush(list, Head(ids)), Tail(ids))

\* the end of one iteration of the cycle's for loop: the lease is deleted
NextId(p) ==
  /\ txIdsFromMempool' = [txIdsFromMempool EXCEPT ![p] = Tail(@)]
  /\ transaction' = [transaction EXCEPT ![p] = NoTransaction]
  /\ revertRead' = [revertRead EXCEPT ![p] = 0]
  /\ pc' = [pc EXCEPT ![p] = "loop"]

\* processMempoolAndCreateBlock starts: the batch is popped.  A cycle that finds
\* the mempool empty collects nothing and seals nothing: it changes no state.
\* the start of a cycle of an instance whose this.batchSize is `count`
StartCycleWith(p, count) ==
  /\ pc[p] = "idle"
  /\ mempool # <<>>
  /\ txIdsFromMempool' = [txIdsFromMempool EXCEPT ![p] = PoppedIds(count)]
  /\ mempool' = SubSeq(mempool, 1, Len(mempool) - Len(PoppedIds(count)))
  /\ pc' = [pc EXCEPT ![p] = "loop"]
  /\ UNCHANGED <<envVars, loopVars, storeVars, clientVars, dlq, lease, successfullyExecutedTxData, transaction,
                 revertRead, latestBlock, lastBlockCreatedAt, now, faults>>

StartCycle(p) == StartCycleWith(p, batchSize)

\* mutant: the lease key is set without NX
LockAcquiredAlways(txId) == TRUE

\* SET lockKey 'processing' EX 60 NX
LockAcquired(txId) == lease[txId] = None

\* the next id of the batch: the lease, then executeSingleTransaction up to its
\* read of the row with fromAccount and toAccount
ExecuteBegin(p) ==
  /\ pc[p] = "loop"
  /\ txIdsFromMempool[p] # <<>>
  /\ LET txId == Head(txIdsFromMempool[p])
     IN IF ~LockAcquired(txId)
          THEN /\ NextId(p)
               /\ UNCHANGED <<lease, successfullyExecutedTxData>>
        ELSE IF txId \notin 1..Len(transactions)
          THEN /\ NextId(p)
               /\ UNCHANGED <<lease, successfullyExecutedTxData>>
        ELSE IF transactions[txId].status # "PENDING"
          THEN /\ NextId(p)
               /\ successfullyExecutedTxData' =
                    [successfullyExecutedTxData EXCEPT ![p] =
                       IF transactions[txId].status = "PROCESSING" THEN Append(@, txId) ELSE @]
               /\ UNCHANGED lease
        ELSE /\ lease' = [lease EXCEPT ![txId] = p]
             /\ transaction' = [transaction EXCEPT ![p] =
                  [id |-> txId, row |-> transactions[txId],
                   sender |-> accounts[transactions[txId].fromAccountId],
                   recipient |-> accounts[transactions[txId].toAccountId]]]
             /\ pc' = [pc EXCEPT ![p] = "execute"]
             /\ UNCHANGED <<txIdsFromMempool, revertRead, successfullyExecutedTxData>>
  /\ UNCHANGED <<envVars, loopVars, storeVars, clientVars, mempool, dlq, latestBlock, lastBlockCreatedAt, now, faults>>

\* redisCacheService.del(lockKey) in the loop's finally
ReleasedLease(txId) == [lease EXCEPT ![txId] = None]

\* the status executeSingleTransaction saves before it looks at the balances
ExecutedStatus == "PROCESSING"

\* the sender row executeSingleTransaction saves
DebitedSender(sender, amount) ==
  [sender EXCEPT !.balance = sender.balance - amount, !.locked = sender.locked - amount]

\* the recipient row executeSingleTransaction saves
CreditedRecipient(recipient, amount) == [recipient EXCEPT !.balance = recipient.balance + amount]

\* revertLockOnAccount's new locked amount
RevertedLocked(currentLocked, amountToRevert) ==
  IF currentLocked - amountToRevert < 0 THEN 0 ELSE currentLocked - amountToRevert

\* mutant: the executor's UPDATE does not wait for the row lock of submitTransfer
RowWritableNoLock(a) == TRUE

\* an UPDATE of an account row waits while a submitTransfer holds its row lock
RowWritable(a) == rowLock[a] = None

\* executeSingleTransaction from the checks on the loaded sender to its return
ExecuteCommit(p) ==
  /\ pc[p] = "execute"
  /\ LET t == transaction[p]
         amount == t.row.amount
         from == t.row.fromAccountId
         to == t.row.toAccountId
     IN IF t.sender.locked < amount
          \* failTransaction, then return without commit or rollback: the connection
          \* goes back to the pool with the transaction open
          THEN /\ \E persisted \in BOOLEAN :
                    transactions' = IF persisted
                                      THEN [transactions EXCEPT ![t.id] = [t.row EXCEPT !.status = "FAILED"]]
                                      ELSE transactions
               /\ UNCHANGED accounts
               /\ NextId(p)
               /\ lease' = ReleasedLease(t.id)
               /\ UNCHANGED successfullyExecutedTxData
        ELSE IF t.sender.balance < amount
          \* failTransaction and revertLockOnAccount in the transaction left open
          THEN /\ \E persisted \in BOOLEAN :
                    /\ transactions' = IF persisted
                                         THEN [transactions EXCEPT ![t.id] = [t.row EXCEPT !.status = "FAILED"]]
                                         ELSE transactions
                    /\ accounts' = IF persisted /\ RowWritable(from)
                                        /\ CheckConstraints([accounts[from] EXCEPT !.locked =
                                               RevertedLocked(accounts[from].locked, amount)])
                                     THEN [accounts EXCEPT ![from].locked = RevertedLocked(@, amount)]
                                     ELSE accounts
               /\ NextId(p)
               /\ lease' = ReleasedLease(t.id)
               /\ UNCHANGED successfullyExecutedTxData
        ELSE IF ~(CheckConstraints(DebitedSender(t.sender, amount))
                  /\ CheckConstraints(CreditedRecipient(t.recipient, amount)))
          \* the store rejects the save: the catch path
          THEN /\ pc' = [pc EXCEPT ![p] = "failed"]
               /\ UNCHANGED <<accounts, transactions, lease, txIdsFromMempool, transaction,
                              revertRead, successfullyExecutedTxData>>
        ELSE /\ RowWritable(from) /\ RowWritable(to)
             /\ accounts' = [accounts EXCEPT ![from] = DebitedSender(t.sender, amount),
                                             ![to] = CreditedRecipient(t.recipient, amount)]
             /\ transactions' = [transactions EXCEPT ![t.id] = [t.row EXCEPT !.status = ExecutedStatus]]
             /\ successfullyExecutedTxData' = [successfullyExecutedTxData EXCEPT ![p] = Append(@, t.id)]
             /\ NextId(p)
             /\ lease' = ReleasedLease(t.id)
  /\ UNCHANGED <<envVars, loopVars, blocks, clientVars, mempool, dlq, latestBlock, lastBlockCreatedAt, now, faults>>

\* a store call of executeSingleTransaction throws: rollbackTransaction, then the
\* catch path.  At "loop" the failing call is the read (after the lease was taken),
\* at "execute" a save or the commit.
ExecuteThrow(p) ==
  /\ faults < MaxFaults
  /\ \/ /\ pc[p] = "loop"
        /\ txIdsFromMempool[p] # <<>>
        /\ LockAcquired(Head(txIdsFromMempool[p]))
        /\ lease' = [lease EXCEPT ![Head(txIdsFromMempool[p])] = p]
        /\ transaction' = [transaction EXCEPT ![p] =
             [NoTransaction EXCEPT !.id = Head(txIdsFromMempool[p]),
                                   !.row = IF Head(txIdsFromMempool[p]) \in 1..Len(transactions)
                                             THEN transactions[Head(txIdsFromMempool[p])] ELSE NoTxRow]]
     \/ /\ pc[p] = "execute"
        /\ UNCHANGED <<lease, transaction>>
  /\ pc' = [pc EXCEPT ![p] = "failed"]
  /\ faults' = faults + 1
  /\ UNCHANGED <<envVars, loopVars, storeVars, clientVars, mempool, dlq, txIdsFromMempool, successfullyExecutedTxData,
                 revertRead, latestBlock, lastBlockCreatedAt, now>>

\* mutant: the fallback writes the wrong member of the status enum
MarkedCancelled(row) == [row EXCEPT !.status = "CANCELLED"]

\* the row markTransactionFailed saves
MarkedFailed(row) == [row EXCEPT !.status = "FAILED"]

\* the catch path: markTransactionFailed, the reload of the row with fromAccount,
\* and revertLockOnAccount's read of the account
FallbackMark(p) ==
  /\ pc[p] = "failed"
  /\ LET txId == transaction[p].id
     IN IF txId \in 1..Len(transactions)
          THEN /\ transactions' = [transactions EXCEPT ![txId] = MarkedFailed(@)]
               /\ revertRead' = [revertRead EXCEPT ![p] = accounts[transactions[txId].fromAccountId].locked]
          ELSE UNCHANGED <<transactions, revertRead>>
  /\ pc' = [pc EXCEPT ![p] = "revert"]
  /\ UNCHANGED <<envVars, loopVars, accounts, blocks, clientVars, mempool, dlq, lease, txIdsFromMempool,
                 successfullyExecutedTxData, transaction, latestBlock, lastBlockCreatedAt, now, faults>>

\* moveToDLQ
MovedToDLQ(txId) == LPush(dlq, txId)

\* the catch path: revertLockOnAccount's update (an error of the store is logged
\* and swallowed), moveToDLQ, return null
FallbackRevert(p) ==
  /\ pc[p] = "revert"
  /\ LET txId == transaction[p].id
     IN /\ IF txId \in 1..Len(transactions)
             THEN LET from == transactions[txId].fromAccountId
                      newLocked == RevertedLocked(revertRead[p], transactions[txId].amount)
                  IN /\ RowWritable(from)
                     /\ accounts' = IF CheckConstraints([accounts[from] EXCEPT !.locked = newLocked])
                                      THEN [accounts EXCEPT ![from].locked = newLocked]
                                      ELSE accounts
             ELSE UNCHANGED accounts
        /\ dlq' = MovedToDLQ(txId)
        /\ lease' = ReleasedLease(txId)
  /\ NextId(p)
  /\ UNCHANGED <<envVars, loopVars, transactions, blocks, clientVars, mempool, successfullyExecutedTxData,
                 latestBlock, lastBlockCreatedAt, now, faults>>

\* mutant: the block time must be exceeded, and an empty collection may be sealed
shouldCreateBlockLate(collected, timeSinceLastBlock) ==
  Len(collected) >= minTxsPerBlock \/ timeSinceLastBlock > blockTimeMs

\* executeSingleTransaction throws before its try block (queryRunner.connect or
\* startTransaction fails): the cycle's catch moves the id to the dead-letter list,
\* its finally deletes the lease
ConnectThrow(p) ==
  /\ pc[p] = "loop"
  /\ txIdsFromMempool[p] # <<>>
  /\ LockAcquired(Head(txIdsFromMempool[p]))
  /\ faults < MaxFaults
  /\ faults' = faults + 1
  /\ dlq' = MovedToDLQ(Head(txIdsFromMempool[p]))
  /\ NextId(p)
  /\ UNCHANGED <<envVars, loopVars, storeVars, clientVars, mempool, lease,
                 successfullyExecutedTxData, latestBlock, lastBlockCreatedAt, now>>

\* an id is on the mempool a second time (a replay of a delivered id by an operator
\* or another producer): the case the lease of lines 139-152 exists for
Replay ==
  /\ replays < MaxReplays
  /\ replays' = replays + 1
  /\ \E i \in 1..Len(transactions) : mempool' = LPush(mempool, i)
  /\ UNCHANGED <<cache, builderVars, readerVars, loopVars, storeVars, clientVars, dlq, lease, procVars, now, faults>>

\* the processor instance dies inside executeSingleTransaction and is started again:
\* its memory is lost, its open store transaction is rolled back by the store, and
\* the lease key it set stays until its TTL runs out
Crash(p) ==
  /\ pc[p] = "execute"
  /\ faults < MaxFaults
  /\ faults' = faults + 1
  /\ pc' = [pc EXCEPT ![p] = "idle"]
  /\ txIdsFromMempool' = [txIdsFromMempool EXCEPT ![p] = <<>>]
  /\ successfullyExecutedTxData' = [successfullyExecutedTxData EXCEPT ![p] = <<>>]
  /\ transaction' = [transaction EXCEPT ![p] = NoTransaction]
  /\ lastBlockCreatedAt' = [lastBlockCreatedAt EXCEPT ![instanceOf[p]] = now]
  /\ UNCHANGED <<envVars, loopVars, storeVars, clientVars, mempool, dlq, lease, revertRead,
                 latestBlock, now>>

\* 'EX', 60: the lease key of a holder that is no longer executing the id expires
LeaseExpire(txId) ==
  /\ lease[txId] # None
  /\ ~(pc[lease[txId]] \in {"execute", "failed", "revert"} /\ transaction[lease[txId]].id = txId)
  /\ lease' = [lease EXCEPT ![txId] = None]
  /\ UNCHANGED <<envVars, loopVars, storeVars, clientVars, mempool, dlq, procVars, now, faults>>

\* shouldCreateBlock
shouldCreateBlock(collected, timeSinceLastBlock) ==
  Len(collected) > 0 /\ (Len(collected) >= minTxsPerBlock \/ timeSinceLastBlock >= blockTimeMs)

\* the cycle after its for loop: the seal condition and, when it holds, the
\* sealing store transaction up to createBlockWithTypeORM's read of the latest block
SealBegin(p) ==
  /\ pc[p] = "loop"
  /\ txIdsFromMempool[p] = <<>>
  /\ IF shouldCreateBlock(successfullyExecutedTxData[p], now - lastBlockCreatedAt[instanceOf[p]])
       THEN /\ latestBlock' = [latestBlock EXCEPT ![p] = [latest |-> getLatestBlock, timestamp |-> now]]
            /\ pc' = [pc EXCEPT ![p] = "seal"]
            /\ UNCHANGED successfullyExecutedTxData
       ELSE /\ successfullyExecutedTxData' = [successfullyExecutedTxData EXCEPT ![p] = <<>>]
            /\ pc' = [pc EXCEPT ![p] = "idle"]
            /\ UNCHANGED latestBlock
  /\ UNCHANGED <<envVars, loopVars, storeVars, clientVars, mempool, dlq, lease, txIdsFromMempool, transaction,
                 revertRead, lastBlockCreatedAt, now, faults>>

\* the catch of the sealing transaction: rollback, every collected id pushed back
SealRollback(p) ==
  /\ mempool' = PushBack(mempool, successfullyExecutedTxData[p])
  /\ successfullyExecutedTxData' = [successfullyExecutedTxData EXCEPT ![p] = <<>>]
  /\ latestBlock' = [latestBlock EXCEPT ![p] = NoLatest]
  /\ pc' = [pc EXCEPT ![p] = "idle"]
  /\ UNCHANGED <<storeVars, lastBlockCreatedAt>>

\* mutant: the sealing update has no where clause
ConfirmedRowsNoWhere(ids, blockId, height) ==
  [i \in 1..Len(transactions) |->
     [transactions[i] EXCEPT !.status = "CONFIRMED", !.blockId = Some(blockId), !.blockHeight = Some(height)]]

\* mutant: the sealing update leaves blockHeight unset
ConfirmedRowsNoHeight(ids, blockId, height) ==
  [i \in 1..Len(transactions) |->
     IF (\E k \in 1..Len(ids) : ids[k] = i) /\ transactions[i].status = "PROCESSING"
       THEN [transactions[i] EXCEPT !.status = "CONFIRMED", !.blockId = Some(blockId)]
       ELSE transactions[i]]

\* mutant: the sealing update confirms the first collected transaction only
ConfirmedRowsFirstOnly(ids, blockId, height) ==
  [i \in 1..Len(transactions) |->
     IF ids[1] = i /\ transactions[i].status = "PROCESSING"
       THEN [transactions[i] EXCEPT !.status = "CONFIRMED", !.blockId = Some(blockId), !.blockHeight = Some(height)]
       ELSE transactions[i]]

\* the rows the sealing update writes: id In(confirmedTxIds), status PROCESSING
ConfirmedRows(ids, blockId, height) ==
  [i \in 1..Len(transactions) |->
     IF (\E k \in 1..Len(ids) : ids[k] = i) /\ transactions[i].status = "PROCESSING"
       THEN [transactions[i] EXCEPT !.status = "CONFIRMED", !.blockId = Some(blockId), !.blockHeight = Some(height)]
       ELSE transactions[i]]

\* redisCacheService.del of balance:{fromAccount.systemAddress} and
\* balance:{toAccount.systemAddress} for every collected id
InvalidatedCache(ids) ==
  [a \in Accounts |->
     IF \E k \in 1..Len(ids) : a \in {transactions[ids[k]].fromAccountId, transactions[ids[k]].toAccountId}
       THEN Null ELSE cache[a]]

\* the system hashes of the collected transactions
SystemHashes(ids) == [k \in 1..Len(ids) |-> transactions[ids[k]].systemHash]

\* the sealing store transaction from the insert of the block to the commit
SealCommit(p) ==
  /\ pc[p] = "seal"
  /\ LET b == NewBlock(latestBlock[p].latest, latestBlock[p].timestamp,
                       SystemHashes(successfullyExecutedTxData[p]))
     IN IF successfullyExecutedTxData[p] = <<>> \/ HeightTaken(b.height)
          \* 'Cannot create an empty block.', or the insert fails on the unique height
          THEN SealRollback(p) /\ UNCHANGED cache
          ELSE /\ blocks' = Append(blocks, b)
               /\ cache' = InvalidatedCache(successfullyExecutedTxData[p])
               /\ transactions' = ConfirmedRows(successfullyExecutedTxData[p], Len(blocks) + 1, b.height)
               /\ lastBlockCreatedAt' = [lastBlockCreatedAt EXCEPT ![instanceOf[p]] = now]
               /\ successfullyExecutedTxData' = [successfullyExecutedTxData EXCEPT ![p] = <<>>]
               /\ latestBlock' = [latestBlock EXCEPT ![p] = NoLatest]
               /\ pc' = [pc EXCEPT ![p] = "idle"]
               /\ UNCHANGED <<accounts, mempool>>
  /\ UNCHANGED <<replays, builderVars, readerVars, loopVars, clientVars, dlq, lease, txIdsFromMempool, transaction, revertRead, now, faults>>

\* the sealing transaction's commit throws: the block insert, the update and the
\* cache deletions were done, then the catch rolls back and pushes the ids back
SealCommitThrow(p) ==
  /\ pc[p] = "seal"
  /\ successfullyExecutedTxData[p] # <<>>
  /\ ~HeightTaken(NewBlock(latestBlock[p].latest, latestBlock[p].timestamp,
                           SystemHashes(successfullyExecutedTxData[p])).height)
  /\ faults < MaxFaults
  /\ faults' = faults + 1
  /\ cache' = InvalidatedCache(successfullyExecutedTxData[p])
  /\ SealRollback(p)
  /\ UNCHANGED <<replays, builderVars, readerVars, loopVars, clientVars, dlq, lease, txIdsFromMempool, transaction, revertRead, now>>

\* a store call of the sealing transaction throws
SealThrow(p) ==
  /\ pc[p] = "seal"
  /\ faults < MaxFaults
  /\ SealRollback(p)
  /\ faults' = faults + 1
  /\ UNCHANGED <<envVars, loopVars, clientVars, dlq, lease, txIdsFromMempool, transaction, revertRead, now>>

\* the two call chains of one instance that run processMempoolAndCreateBlock: the
\* call startProcessingLoop makes at once, and the callback of its interval timer
InitialRunner == "p1"
IntervalRunner == "p2"

\* startProcessingLoop: the first cycle is called (not awaited), then the timer is set
startProcessingLoop ==
  /\ ~processingInterval
  /\ processingInterval' = TRUE
  /\ pc' = [pc EXCEPT ![InitialRunner] = "start"]
  /\ UNCHANGED <<envVars, storeVars, clientVars, mempool, dlq, lease, txIdsFromMempool,
                 successfullyExecutedTxData, transaction, revertRead, latestBlock,
                 lastBlockCreatedAt, now, faults, instanceOf, isProcessing>>

\* the timer fires: the callback returns at once while isProcessing, else it sets
\* the flag and calls the cycle
IntervalCallback ==
  /\ processingInterval
  /\ ~isProcessing
  /\ isProcessing' = TRUE
  /\ pc' = [pc EXCEPT ![IntervalRunner] = "start"]
  /\ UNCHANGED <<envVars, storeVars, clientVars, mempool, dlq, lease, txIdsFromMempool,
                 successfullyExecutedTxData, transaction, revertRead, latestBlock,
                 lastBlockCreatedAt, now, faults, instanceOf, processingInterval>>

\* the callback's finally, once its cycle has returned
IntervalDone ==
  /\ isProcessing
  /\ pc[IntervalRunner] = "idle"
  /\ isProcessing' = FALSE
  /\ UNCHANGED <<envVars, storeVars, clientVars, mempool, dlq, lease, procVars, now, faults,
                 instanceOf, processingInterval>>

\* a called cycle pops its batch (an empty one when the mempool is empty)
PopBatch(p) ==
  /\ pc[p] = "start"
  /\ txIdsFromMempool' = [txIdsFromMempool EXCEPT ![p] = PoppedIds(batchSize)]
  /\ mempool' = SubSeq(mempool, 1, Len(mempool) - Len(PoppedIds(batchSize)))
  /\ pc' = [pc EXCEPT ![p] = "loop"]
  /\ UNCHANGED <<envVars, loopVars, storeVars, clientVars, dlq, lease, successfullyExecutedTxData, transaction,
                 revertRead, latestBlock, lastBlockCreatedAt, now, faults>>

\* time passes: one block time
Tick ==
  /\ now < MaxTicks * blockTimeMs
  /\ now' = now + blockTimeMs
  /\ UNCHANGED <<envVars, loopVars, storeVars, clientVars, mempool, dlq, lease, procVars, faults>>

\* ------------------------------------------------------------ specification

\* the ids a lease key can be taken for
LeaseIds == 1..(IF MaxSealTx > MaxTx THEN MaxSealTx ELSE MaxTx)

InitialAccounts ==
  [a \in Accounts |-> [balance |-> IF a \in {"A", "C"} THEN InitBalance ELSE 0,
                        locked |-> 0, nonce |-> 0]]

InitPipeline ==
  /\ loadedAccount = Null
  /\ accounts = InitialAccounts
  /\ transactions = <<>>
  /\ blocks = <<>>
  /\ rowLock = [a \in Accounts |-> None]
  /\ clientPc = [c \in Clients |-> "idle"]
  /\ clientReq = [c \in Clients |-> NoReq]
  /\ clientSender = [c \in Clients |-> NoRow]
  /\ clientResult = [c \in Clients |-> None]
  /\ mempool = <<>>
  /\ dlq = <<>>
  /\ lease = [i \in LeaseIds |-> None]
  /\ pc = [p \in Procs |-> "idle"]
  /\ txIdsFromMempool = [p \in Procs |-> <<>>]
  /\ successfullyExecutedTxData = [p \in Procs |-> <<>>]
  /\ transaction = [p \in Procs |-> NoTransaction]
  /\ revertRead = [p \in Procs |-> 0]
  /\ latestBlock = [p \in Procs |-> NoLatest]
  /\ lastBlockCreatedAt = [p \in Procs |-> 0]
  /\ now = 0
  /\ faults = 0
  /\ createdTransaction = [c \in Clients |-> 0]
  /\ processingInterval = FALSE
  /\ isProcessing = FALSE
  /\ cache = [a \in Accounts |-> Null]
  /\ replays = 0

\* no createBlockWithTypeORM call is made outside the processor's cycle
InitState == InitPipeline /\ processedTransactions = <<>> /\ createResult = None

\* every cycle runner is the loop of a processor instance of its own
Init == InitState /\ instanceOf = [p \in Procs |-> p]

\* the transfers the pipeline is driven with: owner-submitted, same currency
Routes == {<<"A", "B">>, <<"A", "C">>, <<"C", "B">>}

Next ==
  \/ \E r \in Routes, amount \in 1..MaxAmount :
        SubmitBegin("c1", WalletUser(r[1]), r[1], r[2], amount, "NGN")
  \/ SubmitCommit("c1")
  \/ SubmitEnqueue("c1")
  \/ \E p \in Procs : StartCycle(p)
  \/ \E p \in Procs : ExecuteBegin(p)
  \/ \E p \in Procs : ExecuteCommit(p)
  \/ \E p \in Procs : ExecuteThrow(p)
  \/ \E p \in Procs : FallbackMark(p)
  \/ \E p \in Procs : FallbackRevert(p)
  \/ \E p \in Procs : SealBegin(p)
  \/ \E p \in Procs : SealCommit(p)
  \/ \E p \in Procs : SealThrow(p)
  \/ Tick

Spec == Init /\ [][Next]_vars

\* one processor instance driven by startProcessingLoop: its two runners share
\* this.lastBlockCreatedAt and this.isProcessing
InitLoop == InitState /\ instanceOf = [p \in Procs |-> InitialRunner]

NextLoop ==
  \/ \E r \in Routes, amount \in 1..MaxAmount :
        SubmitBegin("c1", WalletUser(r[1]), r[1], r[2], amount, "NGN")
  \/ SubmitCommit("c1")
  \/ SubmitEnqueue("c1")
  \/ startProcessingLoop
  \/ IntervalCallback
  \/ IntervalDone
  \/ \E p \in Procs : PopBatch(p)
  \/ \E p \in Procs : ExecuteBegin(p)
  \/ \E p \in Procs : ExecuteCommit(p)
  \/ \E p \in Procs : ExecuteThrow(p)
  \/ \E p \in Procs : FallbackMark(p)
  \/ \E p \in Procs : FallbackRevert(p)
  \/ \E p \in Procs : SealBegin(p)
  \/ \E p \in Procs : SealCommit(p)
  \/ \E p \in Procs : SealThrow(p)
  \/ Tick

SpecLoop == InitLoop /\ [][NextLoop]_vars

\* a user who owns none of the senders of Routes
Intruder == "u2"

\* one processor, no concurrent cycle, up to MaxSealTx transfers, callers who own
\* the sender and one who does not
NextSeal ==
  \/ \E r \in Routes, amount \in 1..MaxAmount :
        \E userId \in {WalletUser(r[1]), Intruder} :
           SubmitBegin("c1", userId, r[1], r[2], amount, "NGN")
  \/ SubmitCommitUpTo("c1", MaxSealTx)
  \/ SubmitEnqueue("c1")
  \/ StartCycle("p1")
  \/ ExecuteBegin("p1")
  \/ ExecuteCommit("p1")
  \/ SealBegin("p1")
  \/ SealCommit("p1")
  \/ SealThrow("p1")
  \/ Tick

SpecSeal == Init /\ [][NextSeal]_vars

\* the pipeline with an id delivered twice and executions that fail to connect
NextLease ==
  \/ \E r \in Routes, amount \in 1..MaxAmount :
        SubmitBegin("c1", WalletUser(r[1]), r[1], r[2], amount, "NGN")
  \/ SubmitCommit("c1")
  \/ SubmitEnqueue("c1")
  \/ Replay
  \/ \E p \in Procs : StartCycle(p)
  \/ \E p \in Procs : ExecuteBegin(p)
  \/ \E p \in Procs : ExecuteCommit(p)
  \/ \E p \in Procs : ExecuteThrow(p)
  \/ \E p \in Procs : ConnectThrow(p)
  \/ \E p \in Procs : FallbackMark(p)
  \/ \E p \in Procs : FallbackRevert(p)
  \/ \E p \in Procs : SealBegin(p)
  \/ \E p \in Procs : SealCommit(p)

SpecLease == Init /\ [][NextLease]_vars

\* the steps of one processor instance's cycle, without the executor's exception path
CycleStep(p) ==
  \/ StartCycle(p)
  \/ ExecuteBegin(p)
  \/ ExecuteCommit(p)
  \/ SealBegin(p)
  \/ SealCommit(p)

\* a submitTransfer call that holds the row lock goes on to its commit and its push
IntakeStep(c) == SubmitCommit(c) \/ SubmitEnqueue(c)

\* two processor instances and seal failures, with progress: the interval timer keeps
\* starting cycles, a started cycle and a started call run to their end, time passes
NextRecover ==
  \/ \E r \in Routes, amount \in 1..MaxAmount :
        /\ Len(transactions) < MaxTx
        /\ SubmitBegin("c1", WalletUser(r[1]), r[1], r[2], amount, "NGN")
  \/ IntakeStep("c1")
  \/ \E p \in Procs : CycleStep(p)
  \/ \E p \in Procs : SealThrow(p)
  \/ Tick

SpecRecover ==
  /\ Init /\ [][NextRecover]_vars
  /\ \A p \in Procs : WF_vars(CycleStep(p))
  /\ WF_vars(IntakeStep("c1"))
  /\ WF_vars(Tick)

\* two processor instances, an id delivered twice, an instance that may die while it
\* holds a lease; with progress as in SpecRecover, and lease keys that expire
NextSkip ==
  \/ \E r \in Routes, amount \in 1..MaxAmount :
        /\ Len(transactions) < MaxTx
        /\ SubmitBegin("c1", WalletUser(r[1]), r[1], r[2], amount, "NGN")
  \/ IntakeStep("c1")
  \/ Replay
  \/ \E p \in Procs : CycleStep(p)
  \/ \E p \in Procs : Crash(p)
  \/ \E i \in LeaseIds : LeaseExpire(i)
  \/ Tick

SpecSkip ==
  /\ Init /\ [][NextSkip]_vars
  /\ \A p \in Procs : WF_vars(CycleStep(p))
  /\ WF_vars(IntakeStep("c1"))
  /\ \A i \in LeaseIds : WF_vars(LeaseExpire(i))
  /\ WF_vars(Tick)

\* one processor instance, no store failure and no queue failure: every cycle and
\* every call makes progress, and time passes
NextProgress ==
  \/ \E r \in Routes, amount \in 1..MaxAmount :
        /\ Len(transactions) < MaxTx
        /\ SubmitBegin("c1", WalletUser(r[1]), r[1], r[2], amount, "NGN")
  \/ IntakeStep("c1")
  \/ CycleStep("p1")
  \/ Tick

SpecProgress ==
  /\ Init /\ [][NextProgress]_vars
  /\ WF_vars(CycleStep("p1"))
  /\ WF_vars(IntakeStep("c1"))
  /\ WF_vars(Tick)

\* the 60 s TTL of a lease key runs out while its holder is still inside
\* executeSingleTransaction (SET lockKey 'processing' EX 60 NX)
LeaseExpireLive(txId) ==
  /\ lease[txId] # None
  /\ pc[lease[txId]] \in {"execute", "failed", "revert"}
  /\ transaction[lease[txId]].id = txId
  /\ lease' = [lease EXCEPT ![txId] = None]
  /\ UNCHANGED <<envVars, loopVars, storeVars, clientVars, mempool, dlq, procVars, now, faults>>

\* two processor instances, an id delivered twice, and executions that may outlast
\* the TTL of their lease
NextExpiry ==
  \/ \E r \in Routes, amount \in 1..MaxAmount :
        /\ Len(transactions) < MaxTx
        /\ SubmitBegin("c1", WalletUser(r[1]), r[1], r[2], amount, "NGN")
  \/ IntakeStep("c1")
  \/ Replay
  \/ \E p \in Procs : CycleStep(p)
  \/ \E i \in LeaseIds : LeaseExpireLive(i)
  \/ Tick

SpecExpiry == Init /\ [][NextExpiry]_vars

\* the pipeline of SpecRecover with a queue whose push may fail after the commit
NextOrphan ==
  \/ NextRecover
  \/ EnqueueThrow("c1")

SpecOrphan ==
  /\ Init /\ [][NextOrphan]_vars
  /\ \A p \in Procs : WF_vars(CycleStep(p))
  /\ WF_vars(IntakeStep("c1") \/ EnqueueThrow("c1"))
  /\ WF_vars(Tick)

\* the pipeline with balance queries that fill the cache, and a sealing commit
\* that may fail
\* getAccountBalance, first half: the account row is loaded from the store
getAccountBalanceFind(a) ==
  /\ loadedAccount = Null
  /\ loadedAccount' = Some([systemAddress |-> a, row |-> accounts[a]])
  /\ UNCHANGED <<cache, replays, builderVars, loopVars, storeVars, clientVars, mempool, dlq, lease, procVars, now, faults>>

\* getAccountBalance, second half: a cache hit returns the cached balance; a miss
\* builds the balance from the row loaded before and writes it to the cache
getAccountBalanceReturn ==
  /\ loadedAccount # Null
  /\ LET a == loadedAccount[1].systemAddress
     IN cache' = IF cache[a] # Null
                   THEN cache
                   ELSE [cache EXCEPT ![a] = Some(BalanceView(a, loadedAccount[1].row))]
  /\ loadedAccount' = Null
  /\ UNCHANGED <<replays, builderVars, loopVars, storeVars, clientVars, mempool, dlq, lease, procVars, now, faults>>

\* one processor instance, intake, and balance reads that interleave with both
NextFresh ==
  \/ \E r \in Routes, amount \in 1..MaxAmount :
        /\ Len(transactions) < MaxTx
        /\ SubmitBegin("c1", WalletUser(r[1]), r[1], r[2], amount, "NGN")
  \/ IntakeStep("c1")
  \/ CycleStep("p1")
  \/ \E a \in Accounts : getAccountBalanceFind(a)
  \/ getAccountBalanceReturn
  \/ Tick

SpecFresh == Init /\ [][NextFresh]_vars

NextCache ==
  \/ \E r \in Routes, amount \in 1..MaxAmount :
        /\ Len(transactions) < MaxTx
        /\ SubmitBegin("c1", WalletUser(r[1]), r[1], r[2], amount, "NGN")
  \/ IntakeStep("c1")
  \/ \E p \in Procs : CycleStep(p)
  \/ \E p \in Procs : SealCommitThrow(p)
  \/ \E a \in Accounts : getAccountBalance(a)
  \/ Tick

SpecCache == Init /\ [][NextCache]_vars

\* no submitTransfer call holds a row lock
NoIntakeInFlight == \A a \in Accounts : rowLock[a] = None

\* no processor is inside executeSingleTransaction
NoExecuteInFlight == \A p \in Procs : pc[p] # "execute"

\* two processor instances whose executeSingleTransaction calls overlap each other
\* and never a submitTransfer call, without store failures
NextExec ==
  \/ \E r \in Routes, amount \in 1..MaxAmount :
        /\ NoExecuteInFlight
        /\ SubmitBegin("c1", WalletUser(r[1]), r[1], r[2], amount, "NGN")
  \/ IntakeStep("c1")
  \/ \E p \in Procs : StartCycle(p)
  \/ \E p \in Procs : NoIntakeInFlight /\ ExecuteBegin(p)
  \/ \E p \in Procs : ExecuteCommit(p)
  \/ \E p \in Procs : SealBegin(p)
  \/ \E p \in Procs : SealCommit(p)
  \/ Tick

SpecExec == Init /\ [][NextExec]_vars

\* the lists of system hashes createBlockWithTypeORM is called with
HashBatches == UNION {[1..n -> 1..MaxHash] : n \in 0..MaxBatch}

\* createBlockWithTypeORM alone, on every list of system hashes, block after block
InitBlock == InitPipeline /\ processedTransactions \in HashBatches /\ createResult = None /\ instanceOf = [p \in Procs |-> p]

NextBlock == createBlockWithTypeORM

SpecBlock == InitBlock /\ [][NextBlock]_vars

\* one caller, one processor instance and no failure, with TX_PROCESSOR_BATCH_SIZE
\* configured below the number of ids the mempool can hold
NextDrain ==
  \/ \E r \in Routes :
        /\ Len(transactions) < MaxSealTx
        /\ SubmitBegin("c1", WalletUser(r[1]), r[1], r[2], 1, "NGN")
  \/ SubmitCommitUpTo("c1", MaxSealTx)
  \/ SubmitEnqueue("c1")
  \/ \E count \in 1..MaxCount : StartCycleWith("p1", count)
  \/ ExecuteBegin("p1")
  \/ ExecuteCommit("p1")
  \/ SealBegin("p1")
  \/ SealCommit("p1")
  \/ Tick

SpecDrain == Init /\ [][NextDrain]_vars

\* submitTransfer alone, two clients, one call each, every kind of argument
Addresses == Accounts \union {"X"}
CurrencyArgs == {"NGN", "ngn", "USD"}

NextIntake ==
  \/ \E c \in Clients, userId \in {"u1", "u2"}, from \in Addresses, to \in Addresses,
        amount \in 0..MaxAmount, currency \in CurrencyArgs :
        /\ clientResult[c] = None
        /\ SubmitBegin(c, userId, from, to, amount, currency)
  \/ \E c \in Clients : SubmitCommit(c)
  \/ \E c \in Clients : SubmitEnqueue(c)

SpecIntake == Init /\ [][NextIntake]_vars

\* the same calls with a store that may fail inside submitTransfer's transaction
NextIntakeFault ==
  \/ NextIntake
  \/ \E c \in Clients : SubmitThrow(c)

SpecIntakeFault == Init /\ [][NextIntakeFault]_vars

\* ------------------------------------------------------------------ claims

RECURSIVE SumBalance(_)
SumBalance(S) ==
  IF S = {} THEN 0
  ELSE LET a == CHOOSE x \in S : TRUE IN accounts[a].balance + SumBalance(S \ {a})

RECURSIVE SumInitial(_)
SumInitial(S) ==
  IF S = {} THEN 0
  ELSE LET a == CHOOSE x \in S : TRUE IN InitialAccounts[a].balance + SumInitial(S \ {a})

AccountsOf(cur) == {a \in Accounts : AccountCurrency(a) = cur}
TxSet == 1..Len(transactions)
StatusOf(i) == transactions[i].status

\* C1: conservation -- in every reachable state the balances of the accounts of one
\* currency add up to their initial sum.
C1_Conservation == \A cur \in Currencies : SumBalance(AccountsOf(cur)) = SumInitial(AccountsOf(cur))

\* C2: lock discipline -- in every reachable state every account has
\* balance >= locked >= 0.
C2_LockDiscipline == \A a \in Accounts : accounts[a].balance >= accounts[a].locked /\ accounts[a].locked >= 0

\* C2 witness: a lock reversion of the catch path (dead-letter entry), an execution
\* and a seal have all happened: one transaction is FAILED, another CONFIRMED.
C2_Witness ==
  /\ dlq # <<>>
  /\ blocks # <<>>
  /\ \E i \in TxSet : StatusOf(i) = "CONFIRMED"
  /\ \E i \in TxSet : StatusOf(i) = "FAILED"

\* C3: no double-spend at intake -- of two submitTransfer calls from the same sender,
\* both valid, whose amounts each fit the available balance but together do not,
\* exactly one commits a PENDING transaction (locked raised by its amount, nonce by 1)
\* and the other fails with Insufficient funds and changes nothing.
ValidRequest(req) ==
  /\ req.amount > 0 /\ req.from # req.to
  /\ SenderFound(req.userId, req.from) /\ req.to \in Accounts
  /\ AccountCurrency(req.from) = req.currency /\ AccountCurrency(req.to) = req.currency
Available0(a) == InitialAccounts[a].balance - InitialAccounts[a].locked
Contending(c, d) ==
  /\ c # d
  /\ clientPc[c] = "idle" /\ clientPc[d] = "idle"
  /\ clientResult[c] # None /\ clientResult[d] # None
  /\ ValidRequest(clientReq[c]) /\ ValidRequest(clientReq[d])
  /\ clientReq[c].from = clientReq[d].from
  /\ clientReq[c].amount <= Available0(clientReq[c].from)
  /\ clientReq[d].amount <= Available0(clientReq[c].from)
  /\ clientReq[c].amount + clientReq[d].amount > Available0(clientReq[c].from)
C3_NoDoubleSpend ==
  \A c, d \in Clients : Contending(c, d) =>
     \E w \in {c, d} :
        LET l == CHOOSE x \in {c, d} : x # w
            s == clientReq[w].from
        IN /\ clientResult[w] = "PENDING"
           /\ clientResult[l] = "BadRequest:insufficient"
           /\ accounts = [InitialAccounts EXCEPT
                             ![s].locked = InitialAccounts[s].locked + clientReq[w].amount,
                             ![s].nonce = InitialAccounts[s].nonce + 1]
           /\ Len(transactions) = 1
           /\ transactions[1].status = "PENDING"
           /\ transactions[1].amount = clientReq[w].amount

\* C3 witness: two valid calls from the same sender, each within the available balance
\* and together above it, have both returned.
C3_Witness == \E c, d \in Clients : Contending(c, d)

\* C4: the status of a transaction only moves PENDING -> PROCESSING -> CONFIRMED,
\* PENDING -> FAILED or PROCESSING -> FAILED; no step moves it otherwise.
LegalMove(s, t) ==
  \/ s = t
  \/ s = "PENDING" /\ t \in {"PROCESSING", "FAILED"}
  \/ s = "PROCESSING" /\ t \in {"CONFIRMED", "FAILED"}
C4_StatusLattice ==
  [][\A i \in TxSet : LegalMove(transactions[i].status, transactions'[i].status)]_vars

\* C4 witness: one transaction has reached CONFIRMED and another FAILED.
C4_Witness ==
  \E i, j \in TxSet : StatusOf(i) = "CONFIRMED" /\ StatusOf(j) = "FAILED"

C6_IdempotentExecutor ==
  [][\A p \in Procs :
       (pc[p] \in {"failed", "revert"} /\ pc'[p] # pc[p]
          /\ transaction[p].row.status \in {"PROCESSING", "CONFIRMED", "FAILED"})
         => (accounts' = accounts /\ transactions' = transactions)]_vars

\* C7: chain integrity -- a committed block of height h > 0 carries the blockHash of
\* the committed block of height h - 1; the block of height 0 carries null.
BlockSet == 1..Len(blocks)
C7_ChainIntegrity ==
  \A b \in BlockSet :
     IF blocks[b].height = 0
       THEN blocks[b].previousBlockHash = Null
       ELSE /\ \E c \in BlockSet : blocks[c].height = blocks[b].height - 1
            /\ \A c \in BlockSet : blocks[c].height = blocks[b].height - 1 =>
                  blocks[b].previousBlockHash = Some(blocks[c].blockHash)

\* C7 witness: a block of height 1 is committed.
C7_Witness == \E b \in BlockSet : blocks[b].height = 1

\* C8: height monotonicity -- the heights of the committed blocks are exactly
\* 0 .. n-1, each once, also when two processors seal concurrently.
C8_HeightMonotonic ==
  /\ {blocks[b].height : b \in BlockSet} = 0..(Len(blocks) - 1)
  /\ \A b, c \in BlockSet : blocks[b].height = blocks[c].height => b = c

\* C8 witness: with no injected failure, a sealer lost on the unique height: a block
\* exists and the loser's PROCESSING transaction is back in the mempool.
C8_Witness ==
  /\ faults = 0
  /\ blocks # <<>>
  /\ \E k \in 1..Len(mempool) : StatusOf(mempool[k]) = "PROCESSING"

\* C9: a transaction with a blockId is CONFIRMED and carries the id and height of one
\* committed block; a CONFIRMED transaction has a blockId and a blockHeight.
C9_BlockAttachment ==
  \A i \in TxSet :
    /\ transactions[i].blockId # Null =>
          /\ StatusOf(i) = "CONFIRMED"
          /\ transactions[i].blockId[1] \in BlockSet
          /\ transactions[i].blockHeight = Some(blocks[transactions[i].blockId[1]].height)
    /\ StatusOf(i) = "CONFIRMED" => transactions[i].blockId # Null /\ transactions[i].blockHeight # Null

\* C9 witness: two transactions are CONFIRMED in two different blocks.
C9_Witness ==
  \E i, j \in TxSet : /\ StatusOf(i) = "CONFIRMED" /\ StatusOf(j) = "CONFIRMED"
                       /\ transactions[i].blockId # transactions[j].blockId

\* C10: nonce monotonicity -- the accountNonce values of an account's transactions,
\* in creation order, are 0, 1, 2, ..., and the account's nonce is their number.
EmittedBefore(a, i) == Cardinality({j \in 1..(i - 1) : transactions[j].fromAccountId = a})
C10_NonceMonotonic ==
  /\ \A i \in TxSet : transactions[i].accountNonce = EmittedBefore(transactions[i].fromAccountId, i)
  /\ \A a \in Accounts : accounts[a].nonce = EmittedBefore(a, Len(transactions) + 1)

\* C11: intake frame -- the commit of a successful submitTransfer of amount a from S to
\* R raises S.locked by a and S.nonce by 1 and appends one PENDING transaction whose
\* accountNonce is S's nonce before the step; S.balance, R and every other account
\* stay as they were.
C11_IntakeFrame ==
  [][\A c \in Clients : (clientPc[c] = "locked" /\ clientPc'[c] = "committed") =>
        LET S == clientReq[c].from
            a == clientReq[c].amount
        IN /\ accounts' = [accounts EXCEPT ![S].locked = @ + a, ![S].nonce = @ + 1]
           /\ Len(transactions') = Len(transactions) + 1
           /\ SubSeq(transactions', 1, Len(transactions)) = transactions
           /\ transactions'[Len(transactions')].status = "PENDING"
           /\ transactions'[Len(transactions')].accountNonce = accounts[S].nonce
           /\ transactions'[Len(transactions')].fromAccountId = S
           /\ transactions'[Len(transactions')].toAccountId = clientReq[c].to
           /\ transactions'[Len(transactions')].amount = a]_vars

\* C11 witness: an intake has committed on a sender while an executor holds an
\* earlier transaction of the same sender between its read and its save.
C11_Witness ==
  \E c \in Clients, p \in Procs :
     /\ clientPc[c] = "committed"
     /\ pc[p] = "execute"
     /\ transaction[p].row.fromAccountId = clientReq[c].from

\* C12: a submitTransfer that fails (amount, self-transfer, ownership, currency,
\* recipient, funds, store error) leaves every account, every transaction and the
\* mempool as they were, and holds no row lock afterwards.
C12_FailedIntakeNoChange ==
  [][\A c \in Clients :
        (clientResult[c] = None /\ clientResult'[c] \notin {None, "PENDING"}) =>
           /\ accounts' = accounts
           /\ transactions' = transactions
           /\ mempool' = mempool
           /\ \A a \in Accounts : rowLock'[a] # c]_vars

\* C12 witness: one call failed on a store error after its locked read, another was
\* rejected for a reason found after the funds check.
C12_Witness ==
  \E c, d \in Clients :
     /\ clientResult[c] = "InternalServerError"
     /\ clientResult[d] \in {"NotFound", "BadRequest:recipientCurrency"}

\* the outcome of the step in which a call leaves its store transaction
Finishes(c) ==
  clientPc[c] = "locked" /\ clientPc'[c] # "locked" /\ clientResult'[c] # "InternalServerError"
OutcomeNext(c) == IF clientPc'[c] = "committed" THEN "PENDING" ELSE clientResult'[c]
AvailableOf(a) == accounts[a].balance - accounts[a].locked

\* C13 as stated: the checks run sender currency -> recipient exists -> recipient
\* currency -> available funds, so an unknown recipient yields NotFound and a recipient
\* of another currency BadRequest(currency) for every amount.
C13_SpecifiedOrder ==
  [][\A c \in Clients :
        (Finishes(c) /\ AccountCurrency(clientReq[c].from) = clientReq[c].currency) =>
           LET req == clientReq[c]
           IN /\ req.to \notin Accounts => OutcomeNext(c) = "NotFound"
              /\ (req.to \in Accounts /\ AccountCurrency(req.to) # req.currency)
                    => OutcomeNext(c) = "BadRequest:recipientCurrency"
              /\ (req.to \in Accounts /\ AccountCurrency(req.to) = req.currency
                    /\ AvailableOf(req.from) < req.amount)
                    => OutcomeNext(c) = "BadRequest:insufficient"]_vars

\* C13 amended: the checks run sender currency -> available funds -> recipient exists
\* -> recipient currency; an unknown recipient yields NotFound and a recipient of
\* another currency BadRequest(currency) only for amounts within the available funds,
\* and Insufficient funds otherwise.
C13_CheckOrder ==
  [][\A c \in Clients :
        LET req == clientReq[c]
        IN /\ (Finishes(c) /\ AccountCurrency(req.from) # req.currency)
                 => OutcomeNext(c) = "BadRequest:senderCurrency"
           /\ (Finishes(c) /\ AccountCurrency(req.from) = req.currency) =>
                 /\ AvailableOf(req.from) < req.amount => OutcomeNext(c) = "BadRequest:insufficient"
                 /\ (AvailableOf(req.from) >= req.amount /\ req.to \notin Accounts)
                       => OutcomeNext(c) = "NotFound"
                 /\ (AvailableOf(req.from) >= req.amount /\ req.to \in Accounts
                       /\ AccountCurrency(req.to) # req.currency)
                       => OutcomeNext(c) = "BadRequest:recipientCurrency"
                 /\ (AvailableOf(req.from) >= req.amount /\ req.to \in Accounts
                       /\ AccountCurrency(req.to) = req.currency)
                       => OutcomeNext(c) = "PENDING"]_vars

\* C13 witness: a call whose recipient does not exist and whose amount is above the
\* sender's available funds was rejected with Insufficient funds, and a call with an
\* unknown recipient and an amount within the funds with NotFound.
C13_Witness ==
  \E c, d \in Clients :
     /\ clientResult[c] = "BadRequest:insufficient" /\ clientReq[c].to \notin Accounts
     /\ clientResult[d] = "NotFound"

\* the steps of a submitTransfer call: its start, and the commit of its store transaction
BeginStep(c) ==
  /\ clientPc[c] = "idle"
  /\ clientPc'[c] = "locked" \/ clientResult'[c] # clientResult[c] \/ clientReq'[c] # clientReq[c]
CommitStep(c) == clientPc[c] = "locked" /\ clientPc'[c] = "committed"

\* C14: ownership -- a call by a user who does not own the sender account fails with
\* Forbidden and changes nothing; locked is raised, and a transaction created, only by
\* the commit of a call of the owner; balance is lowered only by the execution of a
\* transaction of that account.
C14_Ownership ==
  [][/\ \A c \in Clients :
          /\ (BeginStep(c) /\ clientReq'[c].amount > 0 /\ clientReq'[c].from # clientReq'[c].to
                 /\ ~(clientReq'[c].from \in Accounts
                       /\ WalletUser(clientReq'[c].from) = clientReq'[c].userId))
                => (clientResult'[c] = "Forbidden" /\ clientPc'[c] = "idle"
                    /\ accounts' = accounts /\ transactions' = transactions /\ mempool' = mempool)
          /\ CommitStep(c) => WalletUser(clientReq[c].from) = clientReq[c].userId
     /\ \A a \in Accounts : accounts'[a].locked > accounts[a].locked =>
          \E c \in Clients : CommitStep(c) /\ clientReq[c].from = a
     /\ Len(transactions') > Len(transactions) =>
          \E c \in Clients : /\ CommitStep(c)
                              /\ transactions'[Len(transactions')].fromAccountId = clientReq[c].from
     /\ \A a \in Accounts : accounts'[a].balance < accounts[a].balance =>
          \E i \in 1..Len(transactions) :
             /\ transactions[i].fromAccountId = a
             /\ transactions[i].status = "PENDING" /\ transactions'[i].status = "PROCESSING"
             /\ accounts'[a].balance = accounts[a].balance - transactions[i].amount]_vars

\* C14 witness: a call on account A by a user who does not own it was refused with
\* Forbidden, after a transfer of A's owner had been executed and confirmed.
C14_Witness ==
  /\ \E c \in Clients : /\ clientResult[c] = "Forbidden"
                          /\ clientReq[c].from = "A" /\ clientReq[c].userId # WalletUser("A")
  /\ \E i \in 1..Len(transactions) :
        transactions[i].fromAccountId = "A" /\ transactions[i].status = "CONFIRMED"

\* C15: every id in the mempool is the id of a committed transaction row, and a
\* submitTransfer call whose store transaction rolls back pushes no id.
C15_MempoolCommitted ==
  /\ [](\A k \in 1..Len(mempool) : mempool[k] \in 1..Len(transactions))
  /\ [][\A c \in Clients :
          (clientPc[c] = "locked" /\ clientPc'[c] = "idle") =>
             (mempool' = mempool /\ createdTransaction'[c] = 0)]_vars

\* C15 witness: a call was rolled back (insufficient funds) while the mempool holds
\* an id, here one pushed back by a failed seal (its row is PROCESSING).
C15_Witness ==
  /\ \E c \in Clients : clientResult[c] = "BadRequest:insufficient"
  /\ \E k \in 1..Len(mempool) :
        mempool[k] \in 1..Len(transactions) /\ transactions[mempool[k]].status = "PROCESSING"

\* C16: execution frame -- the step of executeSingleTransaction that moves a PENDING
\* transaction of amount a to PROCESSING, on a sender row with locked >= a and
\* balance >= a, lowers the sender's balance and locked by a, raises the recipient's
\* balance by a, and changes no other account field, no nonce and no other row.
C16_ExecuteFrame ==
  [][\A i \in 1..Len(transactions) :
        (/\ transactions[i].status = "PENDING" /\ transactions'[i].status = "PROCESSING"
         /\ accounts[transactions[i].fromAccountId].locked >= transactions[i].amount
         /\ accounts[transactions[i].fromAccountId].balance >= transactions[i].amount)
        => LET S == transactions[i].fromAccountId
               R == transactions[i].toAccountId
               a == transactions[i].amount
           IN /\ accounts' = [accounts EXCEPT ![S].balance = @ - a, ![S].locked = @ - a,
                                               ![R].balance = @ + a]
              /\ transactions' = [transactions EXCEPT ![i].status = "PROCESSING"]]_vars

\* the step of a cycle that evaluates the seal condition, after its for loop
SealDecision(p) == pc[p] = "loop" /\ txIdsFromMempool[p] = <<>> /\ pc'[p] # "loop"

\* C17: seal condition -- a cycle goes on to seal a block if and only if it collected
\* at least one executed transaction and either collected at least MIN_TXS_PER_BLOCK
\* or at least BLOCK_TIME_MS passed since the instance's lastBlockSealedAt; a block
\* is committed only by such a cycle, one at a time, and lastBlockSealedAt changes
\* only in the step that commits a block (to the time of that step).
C17_SealCondition ==
  [][/\ \A p \in Procs : SealDecision(p) =>
           /\ pc'[p] = "seal" <=>
                 (/\ Len(successfullyExecutedTxData[p]) >= 1
                  /\ \/ Len(successfullyExecutedTxData[p]) >= 3
                     \/ now - lastBlockCreatedAt[instanceOf[p]] >= 15000)
           /\ blocks' = blocks
           /\ pc'[p] # "seal" => pc'[p] = "idle"
     /\ blocks' # blocks =>
           \E p \in Procs : /\ pc[p] = "seal" /\ pc'[p] = "idle"
                             /\ Len(successfullyExecutedTxData[p]) >= 1
                             /\ Len(blocks') = Len(blocks) + 1
                             /\ lastBlockCreatedAt' =
                                  [lastBlockCreatedAt EXCEPT ![instanceOf[p]] = now]
     /\ lastBlockCreatedAt' # lastBlockCreatedAt => blocks' # blocks]_vars

\* C17 witness: one executed transaction was sealed alone, in a block committed once
\* the block time had passed, while a younger transaction is still unsealed.
C17_Witness ==
  /\ Len(blocks) = 1
  /\ lastBlockCreatedAt["p1"] >= blockTimeMs
  /\ Cardinality({i \in 1..Len(transactions) : transactions[i].status = "CONFIRMED"}) = 1
  /\ \E i \in 1..Len(transactions) : transactions[i].status = "PROCESSING"

\* no call and no cycle is under way, and nothing waits in the mempool
Quiescent ==
  /\ mempool = <<>>
  /\ \A c \in Clients : clientPc[c] = "idle"
  /\ \A p \in Procs : pc[p] = "idle"

\* the transactions that were executed and are not yet in a block
Unsealed == {i \in 1..Len(transactions) : transactions[i].status = "PROCESSING"}

\* C18: size-based sealing carries over cycles -- with no failure and the block time
\* not elapsed, once the cycles have drained the mempool fewer than MIN_TXS_PER_BLOCK
\* executed transactions are left unsealed: when a third one is executed, the cycle
\* that executes it seals all three in one block.
C18_SizeSealCarriesOver ==
  (Quiescent /\ faults = 0 /\ now - lastBlockCreatedAt["p1"] < blockTimeMs)
    => Cardinality(Unsealed) < minTxsPerBlock

\* the id waits in the mempool
InMempool(i) == \E k \in 1..Len(mempool) : mempool[k] = i

\* the sealing store transaction of p ends without a block
SealFails(p) == pc[p] = "seal" /\ pc'[p] = "idle" /\ blocks' = blocks

\* a cycle of p takes up an id whose row is already PROCESSING
Recollects(p) ==
  /\ pc[p] = "loop" /\ txIdsFromMempool[p] # <<>>
  /\ Head(txIdsFromMempool[p]) \in 1..Len(transactions)
  /\ transactions[Head(txIdsFromMempool[p])].status = "PROCESSING"
  /\ txIdsFromMempool'[p] = Tail(txIdsFromMempool[p])

\* C19: seal failure recovery -- a failed sealing transaction leaves no block and no
\* CONFIRMED row, pushes every collected id back onto the mempool with its row still
\* PROCESSING; a cycle that pops such an id moves no funds for it again; and every
\* id pushed back is eventually CONFIRMED in a block.
C19_SealFailureRecovery ==
  /\ [][\A p \in Procs :
          /\ SealFails(p) =>
                /\ transactions' = transactions /\ accounts' = accounts
                /\ \A k \in 1..Len(successfullyExecutedTxData[p]) :
                      /\ \E j \in 1..Len(mempool') : mempool'[j] = successfullyExecutedTxData[p][k]
                      /\ transactions'[successfullyExecutedTxData[p][k]].status = "PROCESSING"
          /\ Recollects(p) => (accounts' = accounts /\ transactions' = transactions)]_vars
  /\ \A i \in 1..MaxTx :
        (InMempool(i) /\ i \in 1..Len(transactions) /\ transactions[i].status = "PROCESSING")
          ~> (i \in 1..Len(transactions) /\ transactions[i].status = "CONFIRMED")

\* the safety half of C19 alone
C19_RollbackPushesBack ==
  [][\A p \in Procs :
        /\ SealFails(p) =>
              /\ transactions' = transactions /\ accounts' = accounts
              /\ \A k \in 1..Len(successfullyExecutedTxData[p]) :
                    /\ \E j \in 1..Len(mempool') : mempool'[j] = successfullyExecutedTxData[p][k]
                    /\ transactions'[successfullyExecutedTxData[p][k]].status = "PROCESSING"
        /\ Recollects(p) => (accounts' = accounts /\ transactions' = transactions)]_vars

\* C20: single-flight -- of the call chains of one processor instance (the cycle
\* startProcessingLoop starts at once, the cycles its timer starts) at most one is
\* inside processMempoolAndCreateBlock at any time.
C20_SingleFlight ==
  \A p, q \in Procs :
     (p # q /\ instanceOf[p] = instanceOf[q]) => (pc[p] = "idle" \/ pc[q] = "idle")

\* the processor handles the id at the head of its batch in this step
HandlesHead(p) ==
  /\ pc[p] = "loop" /\ txIdsFromMempool[p] # <<>>
  /\ txIdsFromMempool'[p] # txIdsFromMempool[p] \/ pc'[p] # pc[p]

\* C21: lease guard -- executeSingle(id) runs only under the lease of id, taken when
\* no one held it; a processor that finds the lease held skips the id and touches
\* neither the store nor the lease; and a held lease always belongs to a processor
\* that is inside executeSingle on that id, so none outlives the handling of its id.
C21_LeaseGuard ==
  /\ [](\A i \in LeaseIds : lease[i] # None =>
           /\ pc[lease[i]] \in {"execute", "failed", "revert"}
           /\ transaction[lease[i]].id = i)
  /\ [][\A p \in Procs : HandlesHead(p) =>
          LET i == Head(txIdsFromMempool[p])
          IN /\ pc'[p] \in {"execute", "failed"} => (lease[i] = None /\ lease'[i] = p)
             /\ lease[i] # None =>
                   /\ accounts' = accounts /\ transactions' = transactions /\ blocks' = blocks
                   /\ lease' = lease /\ dlq' = dlq /\ pc'[p] = "loop"
                   /\ successfullyExecutedTxData' = successfullyExecutedTxData]_vars

\* C21 witness: a processor holds the lease of an id that is at the head of the other
\* processor's batch, after an earlier execution ended with an exception.
C21_Witness ==
  \E p, q \in Procs :
     /\ p # q /\ pc[q] = "loop" /\ txIdsFromMempool[q] # <<>>
     /\ lease[Head(txIdsFromMempool[q])] = p
     /\ dlq # <<>>

\* the id at the head of the processor's batch has its lease held by another one
LeaseHeldByOther(p, i) ==
  /\ pc[p] = "loop" /\ txIdsFromMempool[p] # <<>> /\ Head(txIdsFromMempool[p]) = i
  /\ lease[i] \notin {None, p}

\* C22: an id that a processor popped and skipped because another processor held its
\* lease is not lost -- the transaction does not stay PENDING: it is executed by the
\* holder of the lease or, once the lease is released or expired, by a later cycle.
C22_SkippedIdRetried ==
  \A i \in 1..MaxTx : \A p \in Procs :
     (LeaseHeldByOther(p, i) /\ i \in 1..Len(transactions) /\ transactions[i].status = "PENDING")
       ~> (i \in 1..Len(transactions) /\ transactions[i].status # "PENDING")

\* the ids of the committed rows with the given statuses that satisfy the test
RECURSIVE SumAmount(_)
SumAmount(ids) ==
  IF ids = {} THEN 0
  ELSE LET i == CHOOSE x \in ids : TRUE IN transactions[i].amount + SumAmount(ids \ {i})

ExecutedIds == {i \in 1..Len(transactions) : transactions[i].status \in {"PROCESSING", "CONFIRMED"}}

PendingIds == {i \in 1..Len(transactions) : transactions[i].status = "PENDING"}

\* the account as any serial order of the executions done so far leaves it
SerialAccount(a) ==
  [balance |-> InitialAccounts[a].balance
                 - SumAmount({i \in ExecutedIds : transactions[i].fromAccountId = a})
                 + SumAmount({i \in ExecutedIds : transactions[i].toAccountId = a}),
   locked |-> SumAmount({i \in PendingIds : transactions[i].fromAccountId = a})]

\* C23: executeSingleTransaction calls that interleave on a shared account leave
\* every account's balance and locked as some serial order of them would: each
\* executed transfer is debited and credited once and unlocked once, and no
\* transfer fails.
C23_SerialEquivalence ==
  /\ \A i \in 1..Len(transactions) : transactions[i].status # "FAILED"
  /\ \A a \in Accounts :
        /\ accounts[a].balance = SerialAccount(a).balance
        /\ accounts[a].locked = SerialAccount(a).locked

\* a processor is inside executeSingleTransaction with a loaded sender that passes
\* the locked check (321) and fails the balance check (332)
InsufficientTotalBalance(p) ==
  /\ pc[p] = "execute"
  /\ transaction[p].sender.locked >= transaction[p].row.amount
  /\ transaction[p].sender.balance < transaction[p].row.amount

\* the sender row a processor loaded satisfies the CHECK constraints of the table,
\* so the balance check (332) is never reached with a failing balance
LoadedSenderChecked ==
  \A p \in Procs : pc[p] = "execute" =>
     /\ CheckConstraints(transaction[p].sender)
     /\ ~InsufficientTotalBalance(p)

\* the processor's executeSingleTransaction call takes the branch of line 321 (the
\* loaded sender has locked < amount) and returns null
InconsistentLockReturn(p) ==
  /\ pc[p] = "execute"
  /\ transaction[p].sender.locked < transaction[p].row.amount
  /\ pc'[p] \notin {"execute", "failed"}

\* C25: when the loaded sender's locked is below the amount, executeSingleTransaction
\* returns null leaving the row FAILED in the store and every account field as it was.
C25_InconsistentLockFails ==
  [][\A p \in Procs : InconsistentLockReturn(p) =>
        /\ transactions'[transaction[p].id].status = "FAILED"
        /\ accounts' = accounts]_vars

\* the processor's handling of the id at the head of its batch ends after a store
\* call of executeSingleTransaction threw: the id goes to the dead-letter list
ExceptionReturn(p) ==
  /\ txIdsFromMempool[p] # <<>>
  /\ txIdsFromMempool'[p] # txIdsFromMempool[p]
  /\ dlq' # dlq

\* C26: when a store call of executeSingleTransaction throws, nothing the execution
\* wrote persists, and when the handling of the id ends the row is FAILED, the
\* sender's locked is lower by the amount (not below 0), its balance and the other
\* accounts are as before the call, and the id is at the head of the dead-letter list.
C26_ExceptionFallback ==
  [][\A p \in Procs : ExceptionReturn(p) =>
        LET i == Head(txIdsFromMempool[p])
        IN /\ dlq' = <<i>> \o dlq
           /\ i \in 1..Len(transactions) =>
                LET from == transactions[i].fromAccountId
                IN /\ transactions'[i] = [transactions[i] EXCEPT !.status = "FAILED"]
                   /\ accounts' = [accounts EXCEPT ![from].locked =
                                     RevertedLocked(accounts[from].locked, transactions[i].amount)]]_vars

\* the id is on the dead-letter list
InDLQ(i) == \E k \in 1..Len(dlq) : dlq[k] = i

\* a processor is on the catch path of executeSingleTransaction for the id
InFallback(i) == \E p \in Procs : pc[p] \in {"failed", "revert"} /\ transaction[p].id = i

\* C27: every transaction the executor marked FAILED has its id on the dead-letter
\* list once the executor's handling of it is over.
C27_FailedInDLQ ==
  \A i \in 1..Len(transactions) :
     transactions[i].status = "FAILED" => InDLQ(i) \/ InFallback(i)

\* the processor is on the catch path for a transaction that is still PENDING in
\* the store (the execution that threw was rolled back), and takes its next step
CatchPathStep(p) ==
  /\ pc[p] = "failed"
  /\ pc'[p] # "failed"
  /\ transaction[p].id \in 1..Len(transactions)
  /\ transactions[transaction[p].id].status = "PENDING"

\* C28: a store error during executeSingleTransaction leaves the transaction
\* retryable -- the execution is rolled back and the row stays PENDING for a later
\* cycle to retry, it is not made FAILED.
C28_TransientRetry ==
  [][\A p \in Procs : CatchPathStep(p) =>
        transactions'[transaction[p].id].status = "PENDING"]_vars

\* the last submitTransfer call committed row i (the newest row: one caller) and
\* failed in addToMempool: the row is PENDING and its id is in no list and no batch
Orphaned(i) ==
  /\ clientPc["c1"] = "idle" /\ clientResult["c1"] = "Error:queue"
  /\ i = Len(transactions)
  /\ transactions[i].status = "PENDING"
  /\ ~InMempool(i)

\* C29: a transaction left PENDING by a failed enqueue after the commit is recovered:
\* it does not stay PENDING (it is enqueued again and processed), so the funds
\* locked for it do not stay reserved for ever.
C29_OrphanRecovered ==
  \A i \in 1..MaxTx :
     Orphaned(i) ~> (i \in 1..Len(transactions) /\ transactions[i].status # "PENDING")

\* the sealing store transaction of p ends and the cache key of account a, which
\* held a value, is gone
SealDeletesKey(p, a) ==
  /\ pc[p] = "seal" /\ pc'[p] = "idle"
  /\ cache[a] # Null /\ cache'[a] = Null

\* C30: sealing deletes cache keys only for a committed seal -- a sealing store
\* transaction that deleted a balance key has committed its block, and a seal that
\* rolls back deletes none.
C30_InvalidateAfterCommit ==
  [][\A p \in Procs : \A a \in Accounts :
        SealDeletesKey(p, a) => Len(blocks') = Len(blocks) + 1]_vars

\* every order of the list's elements
Permuted(list) ==
  {[i \in 1..Len(list) |-> list[f[i]]] : f \in Permutations(1..Len(list))}

\* the block createBlockWithTypeORM saved last, and the latest block it was built on
SavedBlock == blocks[Len(blocks)]
BuiltOn == IF Len(blocks) = 1 THEN Null ELSE Some(Len(blocks) - 1)

\* C31: sort-invariant commitment -- the merkleRoot and the blockHash of the saved
\* block are those computed, for the same height, timestamp and previous hash, from
\* every permutation of the list of system hashes, for lists of every size.
C31_SortInvariant ==
  createResult = "saved" =>
     \A list \in Permuted(processedTransactions) :
        /\ calculateMerkleRoot(list) = SavedBlock.merkleRoot
        /\ calculateBlockHash(SavedBlock.height, SavedBlock.timestamp,
                              PreviousBlockHash(BuiltOn), list) = SavedBlock.blockHash

C31_Witness ==
  /\ createResult = "saved"
  /\ Len(blocks) = 2
  /\ Len(processedTransactions) = 3
  /\ processedTransactions[1] > processedTransactions[2]
  /\ processedTransactions[2] > processedTransactions[3]

\* C32: no empty block -- createBlockWithTypeORM called with an empty list fails with
\* InternalServerErrorException and saves no block, so every saved block commits to
\* at least one system hash.
C32_NoEmptyBlock ==
  /\ [](processedTransactions = <<>> => (blocks = <<>> /\ createResult # "saved"))
  /\ [][blocks' # blocks => Len(processedTransactions) >= 1]_vars
  /\ [][processedTransactions = <<>> =>
          (blocks' = blocks /\ createResult' = "InternalServerError")]_vars

C32_Witness ==
  /\ processedTransactions = <<>>
  /\ createResult = "InternalServerError"
  /\ blocks = <<>>

\* the ids a list holds
IdsIn(list) == {list[k] : k \in 1..Len(list)}

\* the cycle of p starts and pops its batch
PopsBatch(p) == pc[p] = "idle" /\ pc'[p] = "loop"

\* the batch is the `count` oldest ids of the mempool (its tail), oldest first, and
\* the mempool keeps the others
OldestFirst(p, count) ==
  LET n == IF Len(mempool) < count THEN Len(mempool) ELSE count
  IN /\ Len(txIdsFromMempool'[p]) = n
     /\ \A k \in 1..n : txIdsFromMempool'[p][k] = mempool[Len(mempool) + 1 - k]
     /\ mempool' = SubSeq(mempool, 1, Len(mempool) - n)

\* C33: bounded FIFO drain -- a cycle pops at most its batch size of ids, the oldest
\* of the mempool and oldest first; and with one caller, one processor and no
\* failure the ids are handled in the order they were enqueued (the order of their
\* creation): an id is handled before every id still waiting in the batch or in the
\* mempool.
C33_FifoDrain ==
  /\ [][PopsBatch("p1") => \E count \in 1..MaxCount : OldestFirst("p1", count)]_vars
  /\ [][HandlesHead("p1") =>
          \A j \in IdsIn(Tail(txIdsFromMempool["p1"])) \cup IdsIn(mempool) :
             Head(txIdsFromMempool["p1"]) < j]_vars

\* a cycle with batch size 2 has left the youngest of three ids in the mempool and
\* executed the oldest
C33_Witness ==
  /\ mempool = <<3>>
  /\ txIdsFromMempool["p1"] = <<2>>
  /\ transactions[1].status = "PROCESSING"

\* no submitTransfer call is between its locked read and its commit, and no
\* processor is inside executeSingleTransaction or its catch path
NoneMidFlight ==
  /\ \A c \in Clients : clientPc[c] # "locked"
  /\ \A p \in Procs : pc[p] \notin {"execute", "failed", "revert"}

\* C34: reservation accounting -- in every state where no intake and no execution
\* is mid-flight, each account's locked is the sum of the amounts of its outbound
\* transactions that are still PENDING.
C34_ReservationAccounting ==
  NoneMidFlight =>
     \A a \in Accounts :
        accounts[a].locked = SumAmount({i \in PendingIds : transactions[i].fromAccountId = a})

\* the processor commits the execution of the transaction it loaded, and a
\* submitTransfer of the same sender committed after the sender was loaded
WritesOverIntake(p) ==
  /\ pc[p] = "execute"
  /\ transactions'[transaction[p].id].status = "PROCESSING"
  /\ accounts[transaction[p].row.fromAccountId].nonce > transaction[p].sender.nonce

\* C35: intake versus execution on one sender -- when a submitTransfer of the sender
\* commits between the executor's read and write of the sender row, the executor's
\* write keeps the intake's nonce and lock (locked goes down by the executed amount
\* only), and no transaction is later found with locked below its amount.
C35_IntakeSurvivesExecution ==
  /\ [][\A p \in Procs : WritesOverIntake(p) =>
          LET S == transaction[p].row.fromAccountId
          IN /\ accounts'[S].nonce = accounts[S].nonce
             /\ accounts'[S].locked = accounts[S].locked - transaction[p].row.amount]_vars
  /\ [](\A p \in Procs : pc[p] = "execute" =>
            transaction[p].sender.locked >= transaction[p].row.amount)

\* the debit and the credit of the transaction were committed: they are saved in
\* the store transaction that makes the row PROCESSING
FundsMoved(i) == transactions[i].status \in {"PROCESSING", "CONFIRMED"}

\* C36: a FAILED transaction moved no funds -- no step marks FAILED a transaction
\* whose debit and credit have been committed.
C36_FailedMovedNoFunds ==
  [][\A i \in 1..Len(transactions) :
        (transactions[i].status # "FAILED" /\ transactions'[i].status = "FAILED")
           => ~FundsMoved(i)]_vars

\* the sealing store transaction of p commits its block
CommitsBlock(p) == pc[p] = "seal" /\ pc'[p] = "idle" /\ Len(blocks') = Len(blocks) + 1

\* the transactions attached to the block with the given id
AttachedTo(blockId) == {i \in 1..Len(transactions) : transactions[i].blockId = Some(blockId)}

\* C37: block contents match the commitment -- the transactions attached to a block
\* by the seal that commits it are exactly the collected transactions whose system
\* hashes its merkleRoot and blockHash were computed from, and the set attached to a
\* committed block never changes afterwards.
C37_ContentsMatchCommitment ==
  [][/\ \A p \in Procs : CommitsBlock(p) =>
           LET b == blocks'[Len(blocks')]
               hashes == SystemHashes(successfullyExecutedTxData[p])
           IN /\ {i \in 1..Len(transactions') : transactions'[i].blockId = Some(Len(blocks'))}
                    = IdsIn(successfullyExecutedTxData[p])
              /\ b.merkleRoot = calculateMerkleRoot(hashes)
              /\ b.blockHash = calculateBlockHash(b.height, b.timestamp, b.previousBlockHash, hashes)
     /\ \A k \in 1..Len(blocks) :
           {i \in 1..Len(transactions') : transactions'[i].blockId = Some(k)} = AttachedTo(k)]_vars

\* two transactions are attached to one committed block
C37_Witness ==
  \E k \in 1..Len(blocks) : Cardinality(AttachedTo(k)) = 2

\* C38: progress -- with fair cycles, a clock that advances and no store or queue
\* failure, every transaction committed as PENDING eventually becomes CONFIRMED or
\* FAILED.
C38_Progress ==
  \A i \in 1..MaxTx :
     (i \in 1..Len(transactions) /\ transactions[i].status = "PENDING")
       ~> (i \in 1..Len(transactions) /\ transactions[i].status \in {"CONFIRMED", "FAILED"})

\* p is inside executeSingleTransaction for the id
Executing(p, i) == pc[p] \in {"execute", "failed", "revert"} /\ transaction[p].id = i

\* p leaves executeSingleTransaction for the id and runs the del of the finally block
Releases(p, i) == Executing(p, i) /\ pc'[p] \notin {"execute", "failed", "revert"}

\* C39: lease ownership on release -- a processor that leaves executeSingleTransaction
\* deletes the lease key of the id only if the lease is still its own (a lease that
\* another processor acquired after the TTL ran out is left in place), and two
\* processors are never inside executeSingleTransaction for the same id at once.
C39_LeaseOwnership ==
  /\ [][\A p \in Procs : \A i \in LeaseIds :
          (Releases(p, i) /\ lease[i] # None /\ lease[i] # p) => lease'[i] = lease[i]]_vars
  /\ [](\A p \in Procs : \A q \in Procs : \A i \in LeaseIds :
          (Executing(p, i) /\ Executing(q, i)) => p = q)

\* a getAccountBalance call for the account returns what the cache holds
ReturnsCached(a) ==
  /\ loadedAccount # Null /\ loadedAccount[1].systemAddress = a
  /\ cache[a] # Null /\ loadedAccount' = Null

\* C40: balance cache freshness -- while no intake is between its commit and its
\* cache invalidation, a getAccountBalance call that returns a cached balance
\* returns the balance of the stored account (what executeSingleTransaction or an
\* intake commit changed in the store is no longer served from the cache).
C40_CacheFreshness ==
  [][\A a \in Accounts :
        (ReturnsCached(a) /\ clientPc["c1"] = "idle")
          => cache[a] = Some(BalanceView(a, accounts[a]))]_vars

====
